---- MODULE Spec2Model ----
(***************************************************************************)
(* Client-side data-fetching and caching layer of react-posts:             *)
(*   - UniversalCacheManager (localStorage tier + in-process Map tier),    *)
(*   - useApi (single-resource controller),                                *)
(*   - useInfiniteApi (paginated controller) as composed by                *)
(*     useInfinitePosts / PostsFeed / MainPage / useFiltersCacheManager.   *)
(*                                                                         *)
(* One step of the model is one run of the JavaScript event loop: a        *)
(* handler (or the continuation of an awaited fetch), followed by the      *)
(* React re-render it schedules and the effects that re-render runs.       *)
(* Time is counted in units of the stale threshold (30 s).                 *)
(* A behaviour runs one of six scenarios, fixed by `hook`: direct calls    *)
(* on the cache store, one useApi instance, one useInfiniteApi instance,   *)
(* the posts page (MainPage) with the feed it keys by the owner filter,    *)
(* the construction of cache keys for posts feeds, or the cache writes of  *)
(* both hooks followed by UniversalCacheManager.clear().                   *)
(***************************************************************************)
EXTENDS Integers, Sequences, FiniteSets, TLC

VARIABLES
    hook,               \* scenario: "store", "useApi", "useApiFocus", "useInfiniteApi", "MainPage",
                        \* "keys", "clear"
    now,                \* Date.now()
    durable,            \* condition of localStorage: "ok", "quota", "disabled"
    cacheTtl,           \* config.cacheTtl of the hook
    localStorage,       \* durable tier: storage key -> stored JSON text
    memoryCache,        \* fast tier: const memoryCache = new Map() of useInfiniteApi.ts
    apiMemoryCache,     \* const memoryCache = new Map() of useApi.ts
    mounted,            \* the component owning the hook is mounted
    selectedUserId,     \* MainPage: filtersState.selectedUserId
    data,               \* useApi: useState data
    pages,              \* useInfiniteApi: useState pages
    loading,            \* useState loading
    loadingMore,        \* useInfiniteApi: useState loadingMore
    error,              \* useState error
    hasMore,            \* useInfiniteApi: useState hasMore
    abortControllerRef, \* useRef: id of the current AbortController, 0 = null
    currentPageRef,     \* useInfiniteApi: useRef current page
    retryCountRef,      \* useInfiniteApi: useRef retry count
    effectCleanup,      \* the last run of the loading effect returned a cleanup
    inflight,           \* fetcher calls that have not settled yet
    started,            \* number of fetcher calls so far; the n-th has id n
    keyCalls,           \* scenario "keys": the cache keys built last
    committed,          \* history: per key, the entry of the latest direct set
    firstCached,        \* history of the posts page, see Noted
    loadMoreRun,        \* history of useInfiniteApi, see NextRun
    writes,             \* history: number of direct cache sets so far
    allWritesFailed,    \* history: every durable-tier write so far has thrown
    ev                  \* history: what the last step did

vars == <<hook, now, durable, cacheTtl, localStorage, memoryCache,
          apiMemoryCache, mounted,
          selectedUserId, data, pages, loading, loadingMore, error, hasMore,
          abortControllerRef, currentPageRef, retryCountRef, effectCleanup,
          inflight, started, keyCalls, committed, firstCached, loadMoreRun, writes,
          allWritesFailed, ev>>

(***************************************************************************)
(* Bounds of the model                                                     *)
(***************************************************************************)
MaxTime == 2          \* the clock stops here
MaxWrites == 2        \* direct cache sets per behaviour; the n-th stores payload n
MaxReq == 4           \* fetcher calls per behaviour
MaxUserId == 2        \* owner ids the filter can select (of the 10 known ones)
MaxKeyCalls == 2      \* cache keys the scenario "keys" keeps for comparison

(***************************************************************************)
(* Program constants                                                       *)
(***************************************************************************)
Undefined == -1               \* `undefined` of `number | undefined`
JsonPlaceholderUsers == 10    \* useFiltersCacheManager: "JSONPlaceholder has 10 users"
PostsLimit == 10              \* MainPage: limit: 10
StaleThreshold == 1           \* 30 * 1000 ms, the unit of time
maxRetries == 3               \* useInfiniteApi: const maxRetries = 3
TtlValues == {1, 3}           \* cacheTtl values a caller may pass

NoData == 0                   \* data === null
NoError == "null"             \* error === null
FetchError == "Failed to fetch"  \* err.message of a rejected fetcher()

(***************************************************************************)
(* Cache keys                                                              *)
(***************************************************************************)
\* useInfinitePosts: `posts_infinite_limit_${limit}_user_${userId || 'all'}`
PostsCacheKey(limit, userId) ==
    <<"posts_infinite_limit_", ToString(limit), "_user_",
      IF userId = Undefined \/ userId = 0 THEN "all" ELSE ToString(userId)>>

\* useFiltersCacheManager: `posts_infinite_limit_${limit}_user_all`
AllUsersKey(limit) == <<"posts_infinite_limit_", ToString(limit), "_user_", "all">>

\* useFiltersCacheManager: `posts_infinite_limit_${limit}_user_${userId}`
UserCacheKey(limit, userId) ==
    <<"posts_infinite_limit_", ToString(limit), "_user_", ToString(userId)>>

\* useUsers: cacheKey: 'users'
UsersKey == <<"users">>

(***************************************************************************)
(* Cache entries                                                           *)
(***************************************************************************)
NoEntry == [absent |-> TRUE]     \* null / undefined result of a lookup
NoItem == <<>>                   \* localStorage.getItem(...) === null

createSingleEntry(payload, ttl) ==
    [data |-> payload, timestamp |-> now, expiresAt |-> now + ttl]

createInfiniteEntry(newPages, ttl) ==
    [pages |-> newPages, timestamp |-> now, expiresAt |-> now + ttl]

isInfiniteEntry(entry) == "pages" \in DOMAIN entry

\* JSON.stringify / JSON.parse of an entry. The stored text is kept as a
\* one-element tuple around the value tree; every field of a modelled entry
\* is a number, a boolean or an array of such records, which JSON preserves.
JSONStringify(entry) == <<entry>>
JSONParse(stored) == stored[1]

(***************************************************************************)
(* UniversalCacheManager. mode is the condition of the durable tier during *)
(* the call: "ok"; "quota" (setItem throws, reads and removals work);      *)
(* "disabled" (every access to localStorage throws).                       *)
(* Each operation yields the two tiers after the call, the value returned  *)
(* and whether an exception escaped to the caller.                         *)
(***************************************************************************)
DurableModes == {"ok", "quota", "disabled"}

\* a key-value store (Storage, Map) is a function on the keys it holds
EmptyStore == [k \in {} |-> NoEntry]
getItem(store, key) == IF key \in DOMAIN store THEN store[key] ELSE NoItem
MapGet(store, key) == IF key \in DOMAIN store THEN store[key] ELSE NoEntry
MapSet(store, key, value) ==
    [k \in DOMAIN store \cup {key} |-> IF k = key THEN value ELSE store[k]]
MapDelete(store, key) == [k \in DOMAIN store \ {key} |-> store[k]]

\* private static readonly CACHE_PREFIX
CACHE_PREFIX == "api_cache_"

\* this.CACHE_PREFIX + key
StorageKey(key) == <<CACHE_PREFIX>> \o key

\* key.startsWith(this.CACHE_PREFIX)
startsWithPrefix(storageKey) == Len(storageKey) > 0 /\ storageKey[1] = CACHE_PREFIX

UCM_delete(ls, mem, key, mode) ==
    [ls |-> IF mode = "disabled" THEN ls ELSE MapDelete(ls, StorageKey(key)),
     mem |-> MapDelete(mem, key),
     ret |-> NoEntry,
     raised |-> FALSE]

UCM_get(ls, mem, key, mode) ==
    IF mode # "disabled" /\ getItem(ls, StorageKey(key)) # NoItem
    THEN LET entry == JSONParse(getItem(ls, StorageKey(key))) IN
         IF now > entry.expiresAt
         THEN UCM_delete(ls, mem, key, mode)
         ELSE [ls |-> ls, mem |-> MapSet(mem, key, entry),
               ret |-> entry, raised |-> FALSE]
    ELSE [ls |-> ls, mem |-> mem, ret |-> MapGet(mem, key), raised |-> FALSE]

\* set without the try/catch around localStorage.setItem
UCM_set_uncaught(ls, mem, key, entry, mode) ==
    IF mode = "ok"
    THEN [ls |-> MapSet(ls, StorageKey(key), JSONStringify(entry)),
          mem |-> MapSet(mem, key, entry), ret |-> NoEntry, raised |-> FALSE]
    ELSE [ls |-> ls, mem |-> mem, ret |-> NoEntry, raised |-> TRUE]

UCM_set(ls, mem, key, entry, mode) ==
    [ls |-> IF mode = "ok" THEN MapSet(ls, StorageKey(key), JSONStringify(entry))
            ELSE ls,
     mem |-> MapSet(mem, key, entry),
     ret |-> NoEntry,
     raised |-> FALSE]

(***************************************************************************)
(* The state as one record, so that the statements of a handler compose;   *)
(* n counts the fetcher calls the step has made, w lists the keys of the   *)
(* cache writes it has made.                                               *)
(***************************************************************************)
Cur ==
    [ls |-> localStorage, mem |-> memoryCache, amem |-> apiMemoryCache,
     committed |-> committed,
     first |-> firstCached,
     mounted |-> mounted, user |-> selectedUserId,
     data |-> data, pages |-> pages, loading |-> loading,
     loadingMore |-> loadingMore, error |-> error, hasMore |-> hasMore,
     ref |-> abortControllerRef, cur |-> currentPageRef,
     retry |-> retryCountRef, cleanup |-> effectCleanup,
     inflight |-> inflight, started |-> started, keys |-> keyCalls, n |-> 0,
     w |-> <<>>]

Install(s) ==
    /\ localStorage' = s.ls
    /\ memoryCache' = s.mem
    /\ apiMemoryCache' = s.amem
    /\ committed' = s.committed
    /\ firstCached' = s.first
    /\ mounted' = s.mounted
    /\ selectedUserId' = s.user
    /\ data' = s.data
    /\ pages' = s.pages
    /\ loading' = s.loading
    /\ loadingMore' = s.loadingMore
    /\ error' = s.error
    /\ hasMore' = s.hasMore
    /\ abortControllerRef' = s.ref
    /\ currentPageRef' = s.cur
    /\ retryCountRef' = s.retry
    /\ effectCleanup' = s.cleanup
    /\ inflight' = s.inflight
    /\ started' = s.started
    /\ keyCalls' = s.keys

Blank ==
    [ls |-> EmptyStore, mem |-> EmptyStore, amem |-> EmptyStore,
     committed |-> EmptyStore,
     first |-> EmptyStore,
     mounted |-> FALSE, user |-> Undefined,
     data |-> NoData, pages |-> <<>>, loading |-> FALSE,
     loadingMore |-> FALSE, error |-> NoError, hasMore |-> TRUE,
     ref |-> 0, cur |-> 1, retry |-> 0, cleanup |-> FALSE,
     inflight |-> {}, started |-> 0, keys |-> <<>>, n |-> 0, w |-> <<>>]

StateIs(s) ==
    /\ localStorage = s.ls
    /\ memoryCache = s.mem
    /\ apiMemoryCache = s.amem
    /\ committed = s.committed
    /\ firstCached = s.first
    /\ mounted = s.mounted
    /\ selectedUserId = s.user
    /\ data = s.data
    /\ pages = s.pages
    /\ loading = s.loading
    /\ loadingMore = s.loadingMore
    /\ error = s.error
    /\ hasMore = s.hasMore
    /\ abortControllerRef = s.ref
    /\ currentPageRef = s.cur
    /\ retryCountRef = s.retry
    /\ effectCleanup = s.cleanup
    /\ inflight = s.inflight
    /\ started = s.started
    /\ keyCalls = s.keys

\* what the last step did: the operation, the fetcher calls it made, the
\* value a direct cache call returned (for a mount, a page load or a
\* selection, the entry the fast tier held for the key before it) and whether the call raised, the parts of
\* the state before the step that claims refer to, and for a settling
\* request its id, whether it had been superseded, whether its instance
\* had been unmounted, whether the fetcher rejected and the keys of the
\* cache writes of the step, for a selection of
\* the owner filter the owner selected before it, for a mount the entry
\* UniversalCacheManager.get returned to the first render (got)
NoPre == [retry |-> 0, npages |-> 0, loading |-> FALSE, loadingMore |-> FALSE,
          hasMore |-> TRUE, same |-> TRUE]
Event(op, n, ret, raised, pre) ==
    [op |-> op, n |-> n, ret |-> ret, raised |-> raised, pre |-> pre,
     id |-> 0, superseded |-> FALSE, orphan |-> FALSE, rejected |-> FALSE,
     sets |-> <<>>, from |-> Undefined, got |-> NoEntry]

\* the cache calls of a handler, applied to the state record
WithCache(s, r) == [s EXCEPT !.ls = r.ls, !.mem = r.mem]
CacheGetIn(s, key) == UCM_get(s.ls, s.mem, key, durable)
CacheDeleteIn(s, key) == WithCache(s, UCM_delete(s.ls, s.mem, key, durable))

\* history of the posts page: per key, the first entry a controller has
\* written since the filter was last set to all owners; an entry written
\* before that selection stays, marked cleared, until the next write
Noted(first, key, entry) ==
    IF hook = "MainPage" /\ (key \notin DOMAIN first \/ first[key].cleared)
    THEN MapSet(first, key, [entry |-> entry, cleared |-> FALSE])
    ELSE first

CacheSetIn(s, key, entry) ==
    [WithCache(s, UCM_set(s.ls, s.mem, key, entry, durable))
        EXCEPT !.first = Noted(@, key, entry), !.w = Append(@, key)]

(***************************************************************************)
(* The clock and the durable tier                                          *)
(***************************************************************************)
\* (the scenario "useInfiniteApi" runs at one instant and under one storage
\* condition; the same hook meets the clock and the quota in "MainPage")
Tick ==
    /\ hook # "useInfiniteApi"
    /\ now < MaxTime
    /\ now' = now + 1
    /\ ev' = Event("tick", 0, NoEntry, FALSE, NoPre)
    /\ UNCHANGED <<hook, durable, cacheTtl, writes, allWritesFailed, loadMoreRun>>
    /\ Install(Cur)

\* the origin's storage quota fills up: from now on setItem throws
QuotaChange ==
    /\ hook # "useInfiniteApi"
    /\ durable = "ok"
    /\ durable' = "quota"
    /\ ev' = Event("quota", 0, NoEntry, FALSE, NoPre)
    /\ UNCHANGED <<hook, now, cacheTtl, writes, allWritesFailed, loadMoreRun>>
    /\ Install(Cur)

(***************************************************************************)
(* Scenario "store": direct use of the cache store                         *)
(***************************************************************************)
CacheSet ==
    \E ttl \in TtlValues :
        LET entry == createSingleEntry(writes + 1, ttl)
            r == UCM_set(localStorage, memoryCache, UsersKey, entry, durable) IN
        /\ hook = "store"
        /\ writes < MaxWrites
        /\ writes' = writes + 1
        /\ allWritesFailed' = (allWritesFailed /\ durable # "ok")
        /\ ev' = Event("set", 0, r.ret, r.raised, NoPre)
        /\ Install([WithCache(Cur, r) EXCEPT !.committed = MapSet(@, UsersKey, entry)])
        /\ UNCHANGED <<hook, now, durable, cacheTtl, loadMoreRun>>

CacheGet ==
    LET r == UCM_get(localStorage, memoryCache, UsersKey, durable) IN
    /\ hook = "store"
    /\ ev' = Event("get", 0, r.ret, r.raised, NoPre)
    /\ Install(WithCache(Cur, r))
    /\ UNCHANGED <<hook, now, durable, cacheTtl, writes, allWritesFailed, loadMoreRun>>

CacheDelete ==
    LET r == UCM_delete(localStorage, memoryCache, UsersKey, durable) IN
    /\ hook = "store"
    /\ ev' = Event("delete", 0, r.ret, r.raised, NoPre)
    /\ Install([WithCache(Cur, r) EXCEPT !.committed = MapDelete(@, UsersKey)])
    /\ UNCHANGED <<hook, now, durable, cacheTtl, writes, allWritesFailed, loadMoreRun>>

\* access to localStorage starts to throw (removeItem and getItem included)
\* or works again
StorageAccessChange ==
    /\ hook = "store"
    /\ durable' = (IF durable = "disabled" THEN "ok" ELSE "disabled")
    /\ ev' = Event("access", 0, NoEntry, FALSE, NoPre)
    /\ UNCHANGED <<hook, now, cacheTtl, writes, allWritesFailed, loadMoreRun>>
    /\ Install(Cur)

NoRun == [on |-> FALSE, loads |-> 0]

InitCommon ==
    /\ now = 0
    /\ writes = 0
    /\ allWritesFailed = TRUE
    /\ loadMoreRun = NoRun
    /\ ev = Event("init", 0, NoEntry, FALSE, NoPre)
    /\ StateIs(Blank)

InitCache ==
    /\ hook = "store"
    /\ durable \in DurableModes
    /\ cacheTtl = 1
    /\ InitCommon

NextCache ==
    Tick \/ QuotaChange \/ StorageAccessChange \/ CacheSet \/ CacheGet \/ CacheDelete

SpecCache == InitCache /\ [][NextCache]_vars

(***************************************************************************)
(* Request coordination shared by both hooks (ApiUtils)                    *)
(***************************************************************************)
\* a fetcher call that has not settled: the AbortController made for it
\* (aborted or not), the arguments of the call, whether the hook instance
\* that made it has been unmounted since (orphan) and, if so, the pages
\* that instance rendered last (prev)
Request(id, kind, page, isRefetch, showLoading, user) ==
    [id |-> id, aborted |-> FALSE, superseded |-> FALSE, orphan |-> FALSE,
     kind |-> kind,
     page |-> page, isRefetch |-> isRefetch, showLoading |-> showLoading,
     user |-> user, prev |-> <<>>]

\* abortControllerRef.current.abort()
AbortCurrent(s) ==
    [s EXCEPT !.inflight =
        {IF r.id = s.ref /\ ~r.orphan THEN [r EXCEPT !.aborted = TRUE] ELSE r
            : r \in s.inflight}]

\* a controller that does not cancel the ongoing request
createRequestController_noAbort(s) == [s EXCEPT !.ref = s.started + 1]

\* ApiUtils.createRequestController: the new controller carries the id of
\* the fetcher call it is made for
createRequestController(s) == [AbortCurrent(s) EXCEPT !.ref = s.started + 1]

\* a cleanup that clears the ref whichever controller it is given
cleanupRequest_always(s, id) == [s EXCEPT !.ref = 0]

\* ApiUtils.cleanupRequest
cleanupRequest(s, id) == IF s.ref = id THEN [s EXCEPT !.ref = 0] ELSE s

\* the fetcher is called: the request joins the ones in flight; the requests
\* of the instance still in flight are from now on superseded (history)
CallFetcher(s, req) ==
    [s EXCEPT !.inflight = {IF r.orphan THEN r ELSE [r EXCEPT !.superseded = TRUE]
                                : r \in @} \cup {req},
              !.started = req.id,
              !.n = @ + 1]

\* the effect cleanup of both hooks
AbortOnCleanup(s) == IF s.ref # 0 THEN [AbortCurrent(s) EXCEPT !.ref = 0] ELSE s

(***************************************************************************)
(* Scenario "useApi": one single-resource controller (useUsers)            *)
(***************************************************************************)
\* the scenarios with a single-resource controller: the configuration of
\* useUsers (refetchOnFocus: false), one that passes refetchOnFocus: true
\* and one that passes persistentCache: false
ApiHooks == {"useApi", "useApiFocus", "useApiMemory"}

\* fetchData up to `await fetcher()`
fetchData_start(s, showLoading) ==
    LET c == createRequestController(s) IN
    CallFetcher([c EXCEPT !.loading = IF showLoading THEN TRUE ELSE @,
                          !.error = IF showLoading THEN NoError ELSE @],
                Request(s.started + 1, "fetchData", 0, FALSE, showLoading, Undefined))

\* a continuation of fetchData that does not store the result
fetchData_settle_uncached(s, r, ok) ==
    IF r.aborted THEN cleanupRequest(s, r.id)
    ELSE IF ok
    THEN cleanupRequest(
            [s EXCEPT !.data = r.id, !.error = NoError,
                      !.loading = IF r.showLoading THEN FALSE ELSE @], r.id)
    ELSE cleanupRequest(
            [s EXCEPT !.error = FetchError,
                      !.loading = IF r.showLoading THEN FALSE ELSE @], r.id)

\* fetchData after `await fetcher()`: the result of request r is payload r.id
fetchData_settle(s, r, ok) ==
    IF r.aborted THEN cleanupRequest(s, r.id)
    ELSE IF ok
    THEN cleanupRequest(
            [CacheSetIn(s, UsersKey, createSingleEntry(r.id, cacheTtl))
                EXCEPT !.data = r.id, !.error = NoError,
                       !.loading = IF r.showLoading THEN FALSE ELSE @], r.id)
    ELSE cleanupRequest(
            [s EXCEPT !.error = FetchError,
                      !.loading = IF r.showLoading THEN FALSE ELSE @], r.id)

\* an initialiser that ignores the cache
getCachedData_ignored(entry) == NoData

\* ApiUtils.getCachedData
getCachedData(entry) ==
    IF entry # NoEntry /\ ~isInfiniteEntry(entry) THEN entry.data ELSE NoData

\* ApiUtils.isCacheStale, on the entry the cache returned
isCacheStale(entry) ==
    \/ entry = NoEntry
    \/ isInfiniteEntry(entry)
    \/ now - entry.timestamp > StaleThreshold

\* the body of the loading effect of useApi
useApi_effect(s) ==
    IF s.data # NoData
    THEN LET g == CacheGetIn(s, UsersKey) IN
         IF isCacheStale(g.ret)
         THEN fetchData_start(WithCache(s, g), FALSE)
         ELSE WithCache(s, g)
    ELSE fetchData_start(s, TRUE)

Pre(s) ==
    [retry |-> s.retry, npages |-> Len(s.pages), loading |-> s.loading,
     loadingMore |-> s.loadingMore, hasMore |-> s.hasMore, same |-> TRUE]

ApiMount ==
    LET g == CacheGetIn(Cur, UsersKey)
        s0 == [WithCache(Cur, g) EXCEPT !.mounted = TRUE,
                                        !.data = getCachedData(g.ret)]
        s1 == useApi_effect(s0) IN
    /\ hook \in ApiHooks
    /\ ~mounted
    /\ s1.started <= MaxReq
    /\ ev' = [Event("mount", s1.n, MapGet(memoryCache, UsersKey), FALSE, NoPre)
                EXCEPT !.got = g.ret]
    /\ Install(s1)
    /\ UNCHANGED <<hook, now, durable, cacheTtl, writes, allWritesFailed, loadMoreRun>>

ApiUnmount ==
    LET s0 == AbortOnCleanup(Cur)
        s1 == [s0 EXCEPT !.mounted = FALSE, !.data = NoData, !.loading = FALSE,
                         !.error = NoError,
                         !.inflight = {[r EXCEPT !.orphan = TRUE] : r \in @}] IN
    /\ hook \in ApiHooks
    /\ mounted
    /\ ev' = Event("unmount", 0, NoEntry, FALSE, NoPre)
    /\ Install(s1)
    /\ UNCHANGED <<hook, now, durable, cacheTtl, writes, allWritesFailed, loadMoreRun>>

ApiRefetch ==
    LET s1 == fetchData_start(Cur, TRUE) IN
    /\ hook \in ApiHooks
    /\ mounted
    /\ s1.started <= MaxReq
    /\ ev' = Event("refetch", s1.n, NoEntry, FALSE, Pre(Cur))
    /\ Install(s1)
    /\ UNCHANGED <<hook, now, durable, cacheTtl, writes, allWritesFailed, loadMoreRun>>

ApiInvalidateCache ==
    LET s1 == fetchData_start(CacheDeleteIn(Cur, UsersKey), TRUE) IN
    /\ hook \in ApiHooks
    /\ mounted
    /\ s1.started <= MaxReq
    /\ ev' = Event("invalidate", s1.n, NoEntry, FALSE, NoPre)
    /\ Install(s1)
    /\ UNCHANGED <<hook, now, durable, cacheTtl, writes, allWritesFailed, loadMoreRun>>

\* the awaited fetcher() of request r settles; a new `data` re-runs the effect
ApiSettle ==
    \E r \in inflight :
      \E ok \in BOOLEAN :
        LET s0 == [Cur EXCEPT !.inflight = @ \ {r}]
            s1 == IF r.orphan
                  THEN IF ~r.aborted /\ ok
                       THEN CacheSetIn(s0, UsersKey, createSingleEntry(r.id, cacheTtl))
                       ELSE s0
                  ELSE fetchData_settle(s0, r, ok)
            s2 == IF s1.data # data
                  THEN useApi_effect(AbortOnCleanup(s1))
                  ELSE s1 IN
        /\ hook \in ApiHooks
        /\ s2.started <= MaxReq
        /\ ev' = [Event(IF r.aborted THEN "late" ELSE IF ok THEN "ok" ELSE "fail",
                        s2.n, NoEntry, FALSE, NoPre)
                    EXCEPT !.pre.same = (s2 = s0), !.id = r.id,
                           !.superseded = r.superseded, !.orphan = r.orphan,
                           !.rejected = ~ok, !.sets = s2.w]
        /\ Install(s2)
        /\ UNCHANGED <<hook, now, durable, cacheTtl, writes, allWritesFailed, loadMoreRun>>

InitApi ==
    /\ hook = "useApi"
    /\ durable \in {"ok", "quota"}
    /\ cacheTtl \in TtlValues
    /\ InitCommon

NextApi ==
    \/ Tick \/ QuotaChange
    \/ ApiMount \/ ApiUnmount \/ ApiRefetch \/ ApiInvalidateCache \/ ApiSettle

SpecApi == InitApi /\ [][NextApi]_vars

(***************************************************************************)
(* Scenario "useApiFocus": the single-resource controller configured with  *)
(* refetchOnFocus: true                                                    *)
(***************************************************************************)
\* handleFocus, for a window focus event
handleFocus(s) ==
    LET g == CacheGetIn(s, UsersKey) IN
    IF isCacheStale(g.ret)
    THEN fetchData_start(WithCache(s, g), FALSE)
    ELSE WithCache(s, g)

\* the window gets the focus while the controller is mounted
ApiFocus ==
    LET s1 == handleFocus(Cur) IN
    /\ hook = "useApiFocus"
    /\ mounted
    /\ s1.started <= MaxReq
    /\ ev' = Event("focus", s1.n, NoEntry, FALSE, Pre(Cur))
    /\ Install(s1)
    /\ UNCHANGED <<hook, now, durable, cacheTtl, writes, allWritesFailed, loadMoreRun>>

InitApiFocus ==
    /\ hook = "useApiFocus"
    /\ durable \in {"ok", "quota"}
    /\ cacheTtl \in TtlValues
    /\ InitCommon

NextApiFocus == NextApi \/ ApiFocus

SpecApiFocus == InitApiFocus /\ [][NextApiFocus]_vars

(***************************************************************************)
(* useInfiniteApi                                                          *)
(***************************************************************************)
Min(a, b) == IF a < b THEN a ELSE b
Max(a, b) == IF a > b THEN a ELSE b

\* x-total-count the server reports: 25 posts in all, 10 posts of one owner
TotalCount(userId) == IF userId = Undefined THEN 25 ELSE 10

\* fetchPaginatedPosts, successful: the page of request id. The array of
\* posts in the body is kept as its length (items), the owner filter its
\* posts satisfy (userId) and the request that produced it (src)
fetchPaginatedPosts(page, limit, userId, id) ==
    LET totalCount == TotalCount(userId)
        totalPages == (totalCount + limit - 1) \div limit
    IN  [data |-> [items |-> Max(0, Min(limit, totalCount - (page - 1) * limit)),
                   userId |-> userId, src |-> id],
         pagination |-> [page |-> page, limit |-> limit, total |-> totalCount,
                         totalPages |-> totalPages, hasMore |-> page < totalPages]]

\* getInitialData, on the entry the cache returned
getInitialData(entry) ==
    IF entry # NoEntry /\ isInfiniteEntry(entry) THEN entry.pages ELSE <<>>

\* every render of useInfiniteApi calls getInitialData (initialPageNumber),
\* and with it UniversalCacheManager.get
Render(s) == WithCache(s, CacheGetIn(s, PostsCacheKey(PostsLimit, s.user)))

\* a first render whose current page always starts at 1
FirstRender_fromPageOne(s, userId) ==
    LET g == CacheGetIn(s, PostsCacheKey(PostsLimit, userId))
        initialPages == getInitialData(g.ret)
        lastPage == initialPages[Len(initialPages)]
    IN  [WithCache(s, g) EXCEPT
            !.mounted = TRUE,
            !.user = userId,
            !.pages = initialPages,
            !.loading = FALSE,
            !.loadingMore = FALSE,
            !.error = NoError,
            !.hasMore = IF Len(initialPages) > 0 THEN lastPage.pagination.hasMore ELSE TRUE,
            !.ref = 0,
            !.cur = 1,
            !.retry = 0,
            !.cleanup = FALSE]

\* the first render of an instance: useState / useRef initialisers
FirstRender(s, userId) ==
    LET g == CacheGetIn(s, PostsCacheKey(PostsLimit, userId))
        initialPages == getInitialData(g.ret)
        lastPage == initialPages[Len(initialPages)]
    IN  [WithCache(s, g) EXCEPT
            !.mounted = TRUE,
            !.user = userId,
            !.pages = initialPages,
            !.loading = FALSE,
            !.loadingMore = FALSE,
            !.error = NoError,
            !.hasMore = IF Len(initialPages) > 0 THEN lastPage.pagination.hasMore ELSE TRUE,
            !.ref = 0,
            !.cur = IF Len(initialPages) > 0 THEN lastPage.pagination.page ELSE 1,
            !.retry = 0,
            !.cleanup = FALSE]

\* fetchPage up to `await fetcher(...)`
fetchPage_start(s, page, isRefetch) ==
    LET c == createRequestController(s) IN
    CallFetcher([c EXCEPT !.loading = IF page = 1 THEN TRUE ELSE @,
                          !.loadingMore = IF page = 1 THEN @ ELSE TRUE,
                          !.error = NoError],
                Request(s.started + 1, "fetchPage", page, isRefetch, TRUE, s.user))

\* a continuation of fetchPage whose catch block does not count the failure
fetchPage_settle_uncounted(s, r, ok) ==
    IF r.aborted THEN cleanupRequest(s, r.id)
    ELSE IF ok
    THEN LET result == fetchPaginatedPosts(r.page, PostsLimit, r.user, r.id)
             newPages == IF r.page = 1 /\ (r.isRefetch \/ Len(s.pages) = 0)
                         THEN <<result>>
                         ELSE Append(s.pages, result)
         IN  cleanupRequest(
                [CacheSetIn(s, PostsCacheKey(PostsLimit, r.user),
                            createInfiniteEntry(newPages, cacheTtl))
                    EXCEPT !.retry = 0,
                           !.pages = newPages,
                           !.hasMore = result.pagination.hasMore,
                           !.error = NoError,
                           !.cur = result.pagination.page,
                           !.loading = FALSE,
                           !.loadingMore = FALSE], r.id)
    ELSE cleanupRequest(
            [s EXCEPT !.error = FetchError,
                      !.loading = FALSE, !.loadingMore = FALSE], r.id)

\* a continuation of fetchPage whose catch block also gives up paging
fetchPage_settle_stopsPaging(s, r, ok) ==
    IF r.aborted THEN cleanupRequest(s, r.id)
    ELSE IF ok
    THEN LET result == fetchPaginatedPosts(r.page, PostsLimit, r.user, r.id)
             newPages == IF r.page = 1 /\ (r.isRefetch \/ Len(s.pages) = 0)
                         THEN <<result>>
                         ELSE Append(s.pages, result)
         IN  cleanupRequest(
                [CacheSetIn(s, PostsCacheKey(PostsLimit, r.user),
                            createInfiniteEntry(newPages, cacheTtl))
                    EXCEPT !.retry = 0,
                           !.pages = newPages,
                           !.hasMore = result.pagination.hasMore,
                           !.error = NoError,
                           !.cur = result.pagination.page,
                           !.loading = FALSE,
                           !.loadingMore = FALSE], r.id)
    ELSE cleanupRequest(
            [s EXCEPT !.retry = @ + 1, !.error = FetchError, !.hasMore = FALSE,
                      !.loading = FALSE, !.loadingMore = FALSE], r.id)

\* fetchPage after `await fetcher(...)`
fetchPage_settle(s, r, ok) ==
    IF r.aborted THEN cleanupRequest(s, r.id)
    ELSE IF ok
    THEN LET result == fetchPaginatedPosts(r.page, PostsLimit, r.user, r.id)
             newPages == IF r.page = 1 /\ (r.isRefetch \/ Len(s.pages) = 0)
                         THEN <<result>>
                         ELSE Append(s.pages, result)
         IN  cleanupRequest(
                [CacheSetIn(s, PostsCacheKey(PostsLimit, r.user),
                            createInfiniteEntry(newPages, cacheTtl))
                    EXCEPT !.retry = 0,
                           !.pages = newPages,
                           !.hasMore = result.pagination.hasMore,
                           !.error = NoError,
                           !.cur = result.pagination.page,
                           !.loading = FALSE,
                           !.loadingMore = FALSE], r.id)
    ELSE cleanupRequest(
            [s EXCEPT !.retry = @ + 1, !.error = FetchError,
                      !.loading = FALSE, !.loadingMore = FALSE], r.id)

\* fetchFirstPage (inside the effect) up to `await fetcher(...)`
fetchFirstPage_start(s) ==
    LET c == createRequestController(s) IN
    CallFetcher([c EXCEPT !.loading = TRUE, !.error = NoError],
                Request(s.started + 1, "fetchFirstPage", 1, FALSE, TRUE, s.user))

\* fetchFirstPage after `await fetcher(...)`
fetchFirstPage_settle(s, r, ok) ==
    IF r.aborted THEN cleanupRequest(s, r.id)
    ELSE IF ok
    THEN LET result == fetchPaginatedPosts(1, PostsLimit, r.user, r.id) IN
         cleanupRequest(
            [CacheSetIn(s, PostsCacheKey(PostsLimit, r.user),
                        createInfiniteEntry(<<result>>, cacheTtl))
                EXCEPT !.retry = 0,
                       !.pages = <<result>>,
                       !.hasMore = result.pagination.hasMore,
                       !.error = NoError,
                       !.cur = result.pagination.page,
                       !.loading = FALSE], r.id)
    ELSE cleanupRequest(
            [s EXCEPT !.retry = @ + 1, !.error = FetchError, !.loading = FALSE], r.id)

\* the loading effect without the retry ceiling
useInfiniteApi_effect_noCeiling(s) ==
    IF Len(s.pages) > 0
    THEN [s EXCEPT !.cleanup = FALSE]
    ELSE [fetchFirstPage_start(s) EXCEPT !.cleanup = TRUE]

\* the body of the loading effect of useInfiniteApi
useInfiniteApi_effect(s) ==
    IF Len(s.pages) > 0
    THEN [s EXCEPT !.cleanup = FALSE]
    ELSE IF s.retry >= maxRetries
    THEN [s EXCEPT !.cleanup = FALSE]
    ELSE [fetchFirstPage_start(s) EXCEPT !.cleanup = TRUE]

\* a dependency of the effect changed: the cleanup it returned, then its body
RerunEffect(s) == useInfiniteApi_effect(IF s.cleanup THEN AbortOnCleanup(s) ELSE s)

\* the re-render after a handler that began with `before`, and the effect
\* if pages.length is no longer the same
Rendered(before, s) ==
    LET s1 == Render(s) IN
    IF Len(s1.pages) # Len(before.pages) THEN RerunEffect(s1) ELSE s1

\* loadMore without its guard
loadMore_unguarded(s) == fetchPage_start(s, s.cur + 1, FALSE)

\* loadMore
loadMore(s) ==
    IF ~s.hasMore \/ s.loadingMore \/ s.loading
    THEN s
    ELSE fetchPage_start(s, s.cur + 1, FALSE)

\* refetch
refetch(s) ==
    fetchPage_start([s EXCEPT !.retry = 0, !.cur = 1, !.pages = <<>>,
                              !.hasMore = TRUE, !.error = NoError], 1, TRUE)

\* invalidateCache
invalidateCache(s) == refetch(CacheDeleteIn(s, PostsCacheKey(PostsLimit, s.user)))

\* the component is removed: the effect's cleanup; what is in flight goes on
Unmounted(s) ==
    LET s1 == IF s.cleanup THEN AbortOnCleanup(s) ELSE s IN
    [s1 EXCEPT !.mounted = FALSE,
               !.inflight = {IF r.orphan THEN r
                             ELSE [r EXCEPT !.orphan = TRUE, !.prev = s.pages]
                                : r \in @}]

\* a request of an unmounted instance settles: fetchFirstPage writes the
\* cache itself, fetchPage writes it inside the setPages updater, which
\* React may or may not evaluate for a component that is gone (runs)
OrphanSettle(s, r, ok, runs) ==
    IF r.aborted \/ ~ok THEN s
    ELSE LET result == fetchPaginatedPosts(r.page, PostsLimit, r.user, r.id)
             newPages == IF r.kind = "fetchFirstPage" THEN <<result>>
                         ELSE IF r.page = 1 /\ (r.isRefetch \/ Len(r.prev) = 0)
                         THEN <<result>>
                         ELSE Append(r.prev, result)
         IN  IF r.kind = "fetchFirstPage" \/ runs
             THEN CacheSetIn(s, PostsCacheKey(PostsLimit, r.user),
                             createInfiniteEntry(newPages, cacheTtl))
             ELSE s

Settled(s, r, ok, runs) ==
    IF r.orphan THEN OrphanSettle(s, r, ok, runs)
    ELSE IF r.kind = "fetchFirstPage"
    THEN Rendered(s, fetchFirstPage_settle(s, r, ok))
    ELSE Rendered(s, fetchPage_settle(s, r, ok))

(***************************************************************************)
(* Scenario "useInfiniteApi": one paginated controller whose caller may    *)
(* pass a new fetcher (or limit, cacheTtl) on a re-render                  *)
(***************************************************************************)
\* the scenarios with one paginated controller on its own: a caller that
\* keeps the cacheKey, and a caller that may pass another cacheKey (and the
\* fetcher that goes with it) on a re-render
InfiniteHooks == {"useInfiniteApi", "useInfiniteApiKey"}

Frame == UNCHANGED <<hook, now, durable, cacheTtl, writes, allWritesFailed>>

\* history: whether the mounted controller had zero pages and nothing but
\* loadMore() has changed its pages since (on), and the number of
\* successful loadMore() calls since then (loads)
NextRun(s, loadedMore) ==
    IF ~s.mounted THEN NoRun
    ELSE IF Len(s.pages) = 0 THEN [on |-> TRUE, loads |-> 0]
    ELSE IF loadedMore /\ loadMoreRun.on THEN [loadMoreRun EXCEPT !.loads = @ + 1]
    ELSE IF s.pages = pages THEN loadMoreRun
    ELSE NoRun

InfMount ==
    LET s1 == useInfiniteApi_effect(FirstRender(Cur, Undefined)) IN
    /\ hook \in InfiniteHooks
    /\ ~mounted
    /\ s1.started <= MaxReq
    /\ ev' = [Event("mount", s1.n,
                     MapGet(memoryCache, PostsCacheKey(PostsLimit, Undefined)),
                     FALSE, NoPre)
                EXCEPT !.got = CacheGetIn(Cur, PostsCacheKey(PostsLimit, Undefined)).ret]
    /\ Install(s1)
    /\ loadMoreRun' = NextRun(s1, FALSE)
    /\ Frame

InfUnmount ==
    /\ hook \in InfiniteHooks
    /\ mounted
    /\ ev' = Event("unmount", 0, NoEntry, FALSE, NoPre)
    /\ Install(Unmounted(Cur))
    /\ loadMoreRun' = NoRun
    /\ Frame

LoadMore ==
    LET s0 == loadMore(Cur)
        s1 == IF s0 = Cur THEN s0 ELSE Rendered(Cur, s0) IN
    /\ hook \in InfiniteHooks \cup {"MainPage"}
    /\ mounted
    /\ s1.started <= MaxReq
    /\ ev' = [Event("loadMore", s1.n, NoEntry, FALSE, Pre(Cur))
                EXCEPT !.pre.same = (s1 = Cur)]
    /\ Install(s1)
    /\ loadMoreRun' = NextRun(s1, FALSE)
    /\ Frame

Refetch ==
    LET s1 == Rendered(Cur, refetch(Cur)) IN
    /\ hook \in InfiniteHooks \cup {"MainPage"}
    /\ mounted
    /\ s1.started <= MaxReq
    /\ ev' = Event("refetch", s1.n, NoEntry, FALSE, Pre(Cur))
    /\ Install(s1)
    /\ loadMoreRun' = NextRun(s1, FALSE)
    /\ Frame

InvalidateCache ==
    LET s1 == Rendered(Cur, invalidateCache(Cur)) IN
    /\ hook \in InfiniteHooks
    /\ mounted
    /\ s1.started <= MaxReq
    /\ ev' = Event("invalidate", s1.n, NoEntry, FALSE, NoPre)
    /\ Install(s1)
    /\ loadMoreRun' = NextRun(s1, FALSE)
    /\ Frame

DepsChange ==
    LET s1 == RerunEffect(Render(Cur)) IN
    /\ hook \in InfiniteHooks
    /\ mounted
    /\ s1.started <= MaxReq
    /\ ev' = Event("depsChange", s1.n, NoEntry, FALSE, NoPre)
    /\ Install(s1)
    /\ loadMoreRun' = NextRun(s1, FALSE)
    /\ Frame

Settle ==
    \E r \in inflight :
      \E ok \in BOOLEAN,
         runs \in (IF r.orphan /\ ~r.aborted THEN BOOLEAN ELSE {FALSE}) :
        LET s0 == [Cur EXCEPT !.inflight = @ \ {r}]
            s1 == Settled(s0, r, ok, runs) IN
        /\ hook \in InfiniteHooks \cup {"MainPage"}
        /\ s1.started <= MaxReq
        /\ ev' = [Event(IF r.aborted \/ r.orphan THEN "late"
                        ELSE IF ok THEN "ok" ELSE "fail",
                        s1.n, NoEntry, FALSE, NoPre)
                    EXCEPT !.pre.same = (s1 = s0), !.id = r.id,
                           !.superseded = r.superseded, !.orphan = r.orphan,
                           !.rejected = ~ok, !.sets = s1.w]
        /\ Install(s1)
        /\ loadMoreRun' = NextRun(s1, ~r.orphan /\ ~r.aborted /\ ok
                                       /\ r.kind = "fetchPage" /\ ~r.isRefetch)
        /\ Frame

InitInfinite ==
    /\ hook = "useInfiniteApi"
    /\ durable \in {"ok", "quota"}
    /\ cacheTtl = 1
    /\ InitCommon

NextInfinite ==
    \/ InfMount \/ InfUnmount \/ LoadMore \/ Refetch \/ InvalidateCache
    \/ DepsChange \/ Settle

SpecInfinite == InitInfinite /\ [][NextInfinite]_vars

(***************************************************************************)
(* Scenario "useInfiniteApiKey": one paginated controller whose caller may *)
(* pass another owner filter, hence another cacheKey and fetcher, without  *)
(* remounting it                                                           *)
(***************************************************************************)
KeyOwnerFilters == {Undefined, 1}

\* a re-render with another cacheKey: the state of the instance stays, the
\* render reads the cache under the new key, the effect runs again
KeyChange ==
    \E userId \in KeyOwnerFilters \ {selectedUserId} :
        LET s1 == RerunEffect(Render([Cur EXCEPT !.user = userId])) IN
        /\ hook = "useInfiniteApiKey"
        /\ mounted
        /\ s1.started <= MaxReq
        /\ ev' = [Event("keyChange", s1.n, NoEntry, FALSE, Pre(Cur))
                    EXCEPT !.from = selectedUserId]
        /\ Install(s1)
        /\ loadMoreRun' = NextRun(s1, FALSE)
        /\ Frame

InitInfiniteKey ==
    /\ hook = "useInfiniteApiKey"
    /\ durable \in {"ok", "quota"}
    /\ cacheTtl = 1
    /\ InitCommon

NextInfiniteKey == NextInfinite \/ KeyChange

SpecInfiniteKey == InitInfiniteKey /\ [][NextInfiniteKey]_vars

\* either controller
InitHooks == InitApi \/ InitInfinite

NextHooks == NextApi \/ NextInfinite

SpecHooks == InitHooks /\ [][NextHooks]_vars

(***************************************************************************)
(* Scenario "MainPage": the posts page. PostsFeed is keyed by the selected *)
(* owner, so a new selection unmounts the feed and mounts a new one, and   *)
(* useFiltersCacheManager's effect runs after the effects of the new feed. *)
(***************************************************************************)
RECURSIVE DeleteUserCaches(_, _, _)
\* for (let userId = 1; userId <= 10; userId++) UniversalCacheManager.delete(...)
DeleteUserCaches(s, limit, userId) ==
    IF userId <= JsonPlaceholderUsers
    THEN DeleteUserCaches(CacheDeleteIn(s, UserCacheKey(limit, userId)), limit, userId + 1)
    ELSE s

\* an effect that never clears the caches of specific owners
useFiltersCacheManager_effect_keepOwners(s, userId, limit) ==
    IF userId # Undefined THEN CacheDeleteIn(s, AllUsersKey(limit)) ELSE s

\* an effect that clears every posts cache whatever the selection is
useFiltersCacheManager_effect_clearAll(s, userId, limit) ==
    DeleteUserCaches(CacheDeleteIn(s, AllUsersKey(limit)), limit, 1)

\* the effect of useFiltersCacheManager
useFiltersCacheManager_effect(s, userId, limit) ==
    IF userId # Undefined
    THEN CacheDeleteIn(s, AllUsersKey(limit))
    ELSE DeleteUserCaches(s, limit, 1)

\* MainPage renders with selectedUserId = userId: the feed's first render,
\* the cleanup of the feed it replaces, the new feed's effect, the page's
\* effect
MainPage_render(s, userId) ==
    LET s1 == FirstRender(Unmounted(s), userId)
        s2 == useInfiniteApi_effect(s1)
    IN  useFiltersCacheManager_effect(s2, userId, PostsLimit)

OwnerFilters == {Undefined} \cup 1..MaxUserId

PageLoad ==
    LET s1 == MainPage_render(Cur, Undefined) IN
    /\ hook = "MainPage"
    /\ ~mounted
    /\ s1.started <= MaxReq
    /\ ev' = [Event("load", s1.n,
                     MapGet(memoryCache, PostsCacheKey(PostsLimit, Undefined)),
                     FALSE, NoPre)
                EXCEPT !.got = CacheGetIn(Cur, PostsCacheKey(PostsLimit, Undefined)).ret]
    /\ Install(s1)
    /\ loadMoreRun' = NextRun(s1, FALSE)
    /\ Frame

\* FilterPanel: onUserFilterChange(userId)
SelectUser ==
    \E userId \in OwnerFilters \ {selectedUserId} :
        LET s1 == MainPage_render(Cur, userId)
            s2 == IF userId = Undefined
                  THEN [s1 EXCEPT !.first =
                            [k \in DOMAIN @ |-> [@[k] EXCEPT !.cleared = TRUE]]]
                  ELSE s1 IN
        /\ hook = "MainPage"
        /\ mounted
        /\ s2.started <= MaxReq
        /\ ev' = [Event("select", s2.n,
                         MapGet(memoryCache, PostsCacheKey(PostsLimit, userId)),
                         FALSE, NoPre)
                    EXCEPT !.from = selectedUserId,
                           !.got = CacheGetIn(Cur, PostsCacheKey(PostsLimit, userId)).ret]
        /\ Install(s2)
        /\ loadMoreRun' = NextRun(s2, FALSE)
        /\ Frame

InitPage ==
    /\ hook = "MainPage"
    /\ durable \in {"ok", "quota"}
    /\ cacheTtl \in TtlValues
    /\ InitCommon

NextPage == Tick \/ QuotaChange \/ PageLoad \/ SelectUser \/ LoadMore \/ Refetch \/ Settle

SpecPage == InitPage /\ [][NextPage]_vars

(***************************************************************************)
(* Scenario "keys": posts feeds are set up for page sizes and owner        *)
(* filters; each builds its cache key (useInfinitePosts), and the key      *)
(* useFiltersCacheManager deletes to invalidate the feed's entry is built  *)
(* from the templates of its effect.                                       *)
(***************************************************************************)
KeyLimits == {1, 10, 20}
KeyOwners == {Undefined, 0, 1, 10}

\* the owners whose entries useFiltersCacheManager deletes
PolicyOwners == {Undefined} \cup 1..JsonPlaceholderUsers

\* the key useFiltersCacheManager deletes for the entry of owner userId
PolicyKey(limit, userId) ==
    IF userId = Undefined THEN AllUsersKey(limit) ELSE UserCacheKey(limit, userId)

BuildCacheKey ==
    \E limit \in KeyLimits, userId \in KeyOwners :
        LET call == [limit |-> limit, userId |-> userId,
                     cacheKey |-> PostsCacheKey(limit, userId),
                     policyKey |-> PolicyKey(limit, userId)]
            kept == IF Len(keyCalls) < MaxKeyCalls THEN keyCalls ELSE Tail(keyCalls)
        IN  /\ hook = "keys"
            /\ ev' = Event("key", 0, NoEntry, FALSE, NoPre)
            /\ Install([Cur EXCEPT !.keys = Append(kept, call)])
            /\ UNCHANGED <<hook, now, durable, cacheTtl, writes, allWritesFailed,
                           loadMoreRun>>

InitKeys ==
    /\ hook = "keys"
    /\ durable = "ok"
    /\ cacheTtl = 1
    /\ InitCommon

NextKeys == BuildCacheKey

SpecKeys == InitKeys /\ [][NextKeys]_vars

(***************************************************************************)
(* Scenario "pagination": fetchPaginatedPosts computes the pagination      *)
(* metadata of a successful response. header is the number parsed from the *)
(* x-total-count header, Undefined when the response has none.             *)
(***************************************************************************)
PageNumbers == 1..4
PageSizes == {1, 3, 10}
Starts == {Undefined, 0, 10, 25}
TotalHeaders == {Undefined, 0, 10, 25, 100}

\* Math.ceil(totalCount / limit) with a floor instead of the ceiling
paginationOf_floor(page, limit, start, userId, header) ==
    LET totalCount == IF header # Undefined THEN header
                      ELSE IF userId # Undefined THEN 10 ELSE 100
        totalPages == totalCount \div limit
        currentPage == IF start # Undefined THEN (start \div limit) + 1 ELSE page
        more == currentPage < totalPages
    IN  [page |-> currentPage, limit |-> limit, total |-> totalCount,
         totalPages |-> totalPages, hasMore |-> more,
         nextPage |-> IF more THEN currentPage + 1 ELSE Undefined]

\* the pagination object fetchPaginatedPosts returns
paginationOf(page, limit, start, userId, header) ==
    LET totalCount == IF header # Undefined THEN header
                      ELSE IF userId # Undefined THEN 10 ELSE 100
        totalPages == (totalCount + limit - 1) \div limit
        currentPage == IF start # Undefined THEN (start \div limit) + 1 ELSE page
        more == currentPage < totalPages
    IN  [page |-> currentPage, limit |-> limit, total |-> totalCount,
         totalPages |-> totalPages, hasMore |-> more,
         nextPage |-> IF more THEN currentPage + 1 ELSE Undefined]

\* one call of fetchPaginatedPosts that succeeds; the last call is kept
Paginate ==
    \E page \in PageNumbers, limit \in PageSizes, start \in Starts,
       userId \in {Undefined, 1}, header \in TotalHeaders :
        LET call == [page |-> page, limit |-> limit, start |-> start,
                     userId |-> userId, header |-> header,
                     pagination |-> paginationOf(page, limit, start, userId, header)]
        IN  /\ hook = "pagination"
            /\ ev' = Event("paginate", 0, NoEntry, FALSE, NoPre)
            /\ Install([Cur EXCEPT !.keys = <<call>>])
            /\ UNCHANGED <<hook, now, durable, cacheTtl, writes, allWritesFailed,
                           loadMoreRun>>

InitPagination ==
    /\ hook = "pagination"
    /\ durable = "ok"
    /\ cacheTtl = 1
    /\ InitCommon

NextPagination == Paginate

SpecPagination == InitPagination /\ [][NextPagination]_vars

(***************************************************************************)
(* Scenario "clear": the hooks write cache entries, with persistentCache   *)
(* true or false, other code of the origin writes a localStorage key of    *)
(* its own, and UniversalCacheManager.clear() is called.                   *)
(***************************************************************************)
\* UniversalCacheManager.clear
UCM_clear(ls, mem, mode) ==
    [ls |-> IF mode = "disabled" THEN ls
            ELSE [k \in {j \in DOMAIN ls : ~startsWithPrefix(j)} |-> ls[k]],
     mem |-> EmptyStore,
     ret |-> NoEntry,
     raised |-> FALSE]

\* ApiUtils.setCachedData
setCachedData(s, cacheKey, payload, ttl, persistentCache) ==
    LET entry == createSingleEntry(payload, ttl) IN
    IF persistentCache
    THEN CacheSetIn(s, cacheKey, entry)
    ELSE [s EXCEPT !.amem = MapSet(@, cacheKey, entry), !.w = Append(@, cacheKey)]

\* setCachedPages of useInfiniteApi
setCachedPages(s, cacheKey, newPages, ttl, persistentCache) ==
    LET entry == createInfiniteEntry(newPages, ttl) IN
    IF persistentCache
    THEN CacheSetIn(s, cacheKey, entry)
    ELSE [s EXCEPT !.mem = MapSet(@, cacheKey, entry), !.w = Append(@, cacheKey)]

\* a localStorage key of other code of the origin, and the item it stores
OtherKey == <<"theme">>
OtherItem == <<"dark">>

ClearFrame ==
    UNCHANGED <<hook, now, durable, cacheTtl, writes, allWritesFailed, loadMoreRun>>

\* a useApi instance stores the result of a fetch
WriteData ==
    \E persistentCache \in BOOLEAN :
        /\ hook = "clear"
        /\ ev' = Event("setCachedData", 0, NoEntry, FALSE, NoPre)
        /\ Install(setCachedData(Cur, UsersKey, 1, cacheTtl, persistentCache))
        /\ ClearFrame

\* a useInfiniteApi instance stores its pages
WritePages ==
    \E persistentCache \in BOOLEAN :
        LET result == fetchPaginatedPosts(1, PostsLimit, Undefined, 1) IN
        /\ hook = "clear"
        /\ ev' = Event("setCachedPages", 0, NoEntry, FALSE, NoPre)
        /\ Install(setCachedPages(Cur, PostsCacheKey(PostsLimit, Undefined),
                                  <<result>>, cacheTtl, persistentCache))
        /\ ClearFrame

\* localStorage.setItem / removeItem by other code of the origin
OtherStorageUse ==
    /\ hook = "clear"
    /\ durable = "ok"
    /\ ev' = Event("other", 0, NoEntry, FALSE, NoPre)
    /\ Install([Cur EXCEPT !.ls = IF OtherKey \in DOMAIN @
                                  THEN MapDelete(@, OtherKey)
                                  ELSE MapSet(@, OtherKey, OtherItem)])
    /\ ClearFrame

CacheClear ==
    LET r == UCM_clear(localStorage, memoryCache, durable) IN
    /\ hook = "clear"
    /\ ev' = Event("clear", 0, r.ret, r.raised, NoPre)
    /\ Install(WithCache(Cur, r))
    /\ ClearFrame

InitClear ==
    /\ hook = "clear"
    /\ durable \in DurableModes
    /\ cacheTtl = 1
    /\ InitCommon

NextClear ==
    \/ Tick \/ QuotaChange
    \/ WriteData \/ WritePages \/ OtherStorageUse \/ CacheClear

SpecClear == InitClear /\ [][NextClear]_vars

(***************************************************************************)
(* Scenario "useApiMemory": the single-resource controller configured with *)
(* persistentCache: false; it reads and writes the Map of useApi.ts        *)
(***************************************************************************)
\* the body of the loading effect, persistentCache false
useApi_effect_memory(s) ==
    IF s.data # NoData
    THEN IF isCacheStale(MapGet(s.amem, UsersKey))
         THEN fetchData_start(s, FALSE)
         ELSE s
    ELSE fetchData_start(s, TRUE)

\* fetchData after `await fetcher()`, persistentCache false
fetchData_settle_memory(s, r, ok) ==
    IF r.aborted THEN cleanupRequest(s, r.id)
    ELSE IF ok
    THEN cleanupRequest(
            [setCachedData(s, UsersKey, r.id, cacheTtl, FALSE)
                EXCEPT !.data = r.id, !.error = NoError,
                       !.loading = IF r.showLoading THEN FALSE ELSE @], r.id)
    ELSE cleanupRequest(
            [s EXCEPT !.error = FetchError,
                      !.loading = IF r.showLoading THEN FALSE ELSE @], r.id)

ApiMemoryMount ==
    LET entry == MapGet(apiMemoryCache, UsersKey)
        s0 == [Cur EXCEPT !.mounted = TRUE, !.data = getCachedData(entry)]
        s1 == useApi_effect_memory(s0) IN
    /\ hook = "useApiMemory"
    /\ ~mounted
    /\ s1.started <= MaxReq
    /\ ev' = [Event("mount", s1.n, entry, FALSE, NoPre) EXCEPT !.got = entry]
    /\ Install(s1)
    /\ ClearFrame

ApiMemorySettle ==
    \E r \in inflight :
      \E ok \in BOOLEAN :
        LET s0 == [Cur EXCEPT !.inflight = @ \ {r}]
            s1 == IF r.orphan
                  THEN IF ~r.aborted /\ ok
                       THEN setCachedData(s0, UsersKey, r.id, cacheTtl, FALSE)
                       ELSE s0
                  ELSE fetchData_settle_memory(s0, r, ok)
            s2 == IF s1.data # data
                  THEN useApi_effect_memory(AbortOnCleanup(s1))
                  ELSE s1 IN
        /\ hook = "useApiMemory"
        /\ s2.started <= MaxReq
        /\ ev' = [Event(IF r.aborted THEN "late" ELSE IF ok THEN "ok" ELSE "fail",
                        s2.n, NoEntry, FALSE, NoPre)
                    EXCEPT !.pre.same = (s2 = s0), !.id = r.id,
                           !.superseded = r.superseded, !.orphan = r.orphan,
                           !.rejected = ~ok, !.sets = s2.w]
        /\ Install(s2)
        /\ ClearFrame

InitApiMemory ==
    /\ hook = "useApiMemory"
    /\ durable \in {"ok", "quota"}
    /\ cacheTtl \in TtlValues
    /\ InitCommon

NextApiMemory ==
    Tick \/ ApiMemoryMount \/ ApiUnmount \/ ApiRefetch \/ ApiMemorySettle

SpecApiMemory == InitApiMemory /\ [][NextApiMemory]_vars

(***************************************************************************)
(* Claims about the cache store (scenario "store")                         *)
(***************************************************************************)
Expired(entry) == entry # NoEntry /\ now > entry.expiresAt

\* C2: a get never returns an expired entry: whatever the two tiers hold, a
\* get performed when now > expiresAt returns absent and leaves no expired
\* entry for the key in the fast tier.
C2_GetPurgesExpired ==
    ev.op = "get" => ~Expired(ev.ret) /\ ~Expired(MapGet(memoryCache, UsersKey))

\* C4: storage degradation: while every durable-tier write throws, set still
\* stores the entry in the fast tier, a later get within the entry's TTL
\* returns that entry, and neither call raises to the caller.
C4_StorageDegradation ==
    allWritesFailed =>
        /\ ~ev.raised
        /\ ev.op = "set" => MapGet(memoryCache, UsersKey) = MapGet(committed, UsersKey)
        /\ (ev.op = "get" /\ MapGet(committed, UsersKey) # NoEntry
                /\ ~Expired(MapGet(committed, UsersKey)))
            => ev.ret = MapGet(committed, UsersKey)

C4_Witness ==
    /\ allWritesFailed
    /\ writes > 0
    /\ ev.op = "get"
    /\ ev.ret # NoEntry
    /\ ev.ret = MapGet(committed, UsersKey)

\* C5: read-your-writes: a get returns the entry of the most recent set on
\* the key while that entry has not expired, also when the durable tier
\* still holds an older entry because the latest durable write failed.
C5_ReadYourWrites ==
    (ev.op = "get" /\ MapGet(committed, UsersKey) # NoEntry /\ ~Expired(MapGet(committed, UsersKey)))
        => ev.ret = MapGet(committed, UsersKey)

\* C24: after delete(key), get(key) returns absent until the next
\* set(key, ...), also when the durable tier's removeItem throws during the
\* delete.
C24_DeleteThenAbsent ==
    (ev.op = "get" /\ MapGet(committed, UsersKey) = NoEntry) => ev.ret = NoEntry

(***************************************************************************)
(* Claims about the two controllers                                        *)
(***************************************************************************)
\* the cache key of the controller of the scenario
HookKey == IF hook \in ApiHooks THEN UsersKey ELSE PostsCacheKey(PostsLimit, selectedUserId)

\* what UniversalCacheManager.get would return for the key now
CacheEntryNow == UCM_get(localStorage, memoryCache, HookKey, durable).ret

\* the controller shows the result of request id, no error, and the cache
\* entry for its key is the one written with that result
ResultInstalled(id) ==
    /\ error = NoError
    /\ CacheEntryNow # NoEntry
    /\ IF hook = "useApi"
       THEN data = id /\ ~isInfiniteEntry(CacheEntryNow) /\ CacheEntryNow.data = id
       ELSE /\ Len(pages) > 0
            /\ pages[Len(pages)].data.src = id
            /\ isInfiniteEntry(CacheEntryNow)
            /\ CacheEntryNow.pages = pages

\* C1: ordering under races, one controller instance: when fetch B, started
\* after fetch A, succeeds while A is still in flight, the payload/pages,
\* error and cache entry are B's; when A settles after a later fetch was
\* started, its result changes nothing.
C1_LatestFetchWins ==
    /\ (ev.op \in {"ok", "fail", "late"} /\ ev.superseded) => ev.pre.same
    /\ (ev.op = "ok" /\ ~ev.superseded
            /\ \E a \in inflight : a.superseded /\ ~a.orphan /\ a.id < ev.id)
        => ResultInstalled(ev.id)

\* the part of C1 that holds: a request settling after a later request of
\* its instance was started changes nothing
C1_LateResultDiscarded ==
    (ev.op \in {"ok", "fail", "late"} /\ ev.superseded) => ev.pre.same

C1_LateWitness ==
    /\ ev.op = "late"
    /\ ev.superseded
    /\ inflight = {}
    /\ IF hook = "useApi" THEN data > ev.id
       ELSE Len(pages) > 0 /\ pages[Len(pages)].data.src > ev.id

\* C3: TTL correctness of both controllers: a controller mounted for a key
\* whose entry has expired (now > expiresAt) finds it absent and starts a
\* fetch; one mounted before the entry expires exposes the cached payload
\* and starts no request.
C3_TtlCorrectness ==
    (ev.op = "mount" /\ ev.ret # NoEntry) =>
        /\ now > ev.ret.expiresAt =>
                /\ ev.n = 1
                /\ IF hook = "useApi" THEN data = NoData ELSE pages = <<>>
        /\ now < ev.ret.expiresAt =>
                /\ ev.n = 0
                /\ IF hook = "useApi" THEN data = ev.ret.data
                   ELSE pages = ev.ret.pages

\* C6: at most one network request of a controller instance is in flight.
C6_SingleFlight == Cardinality({r \in inflight : ~r.orphan}) <= 1

(***************************************************************************)
(* Claims about useInfiniteApi                                             *)
(***************************************************************************)
\* C7: retry ceiling: a failed fetch sets error; once the retry counter has
\* reached maxRetries with no pages loaded, a dependency change starts no
\* fetch, however often it happens; refetch() then resets the counter to
\* zero and starts exactly one request.
C7_RetryCeiling ==
    /\ ev.op = "fail" => error # NoError /\ retryCountRef > 0
    /\ (ev.op = "depsChange" /\ retryCountRef >= maxRetries /\ Len(pages) = 0)
        => ev.n = 0
    /\ (ev.op = "refetch" /\ ev.pre.retry >= maxRetries /\ ev.pre.npages = 0)
        => retryCountRef = 0 /\ ev.n = 1

C7_Witness ==
    /\ ev.op = "refetch"
    /\ ev.pre.retry >= maxRetries
    /\ ev.pre.npages = 0
    /\ retryCountRef = 0
    /\ ev.n = 1

C7_CeilingWitness ==
    /\ ev.op = "depsChange"
    /\ retryCountRef >= maxRetries
    /\ Len(pages) = 0
    /\ ev.n = 0

RECURSIVE flatData(_)
\* pages.reduce((acc, page) => [...acc, ...page.data], []), as its length
flatData(ps) == IF ps = <<>> THEN 0 ELSE ps[1].data.items + flatData(Tail(ps))

\* C8: pagination accumulation, page size 10, server total 25: k successful
\* loadMore() calls from zero pages give pages 1..k (10, 10 and 5 items,
\* hasMore false on page 3), 25 items after three, and a fourth loadMore()
\* starts no request and changes nothing.
C8_PaginationAccumulation ==
    (loadMoreRun.on /\ loadMoreRun.loads > 0 /\ selectedUserId = Undefined) =>
        /\ Len(pages) = loadMoreRun.loads
        /\ \A i \in 1..Len(pages) :
                /\ pages[i].pagination.page = i
                /\ pages[i].data.items = (IF i < 3 THEN 10 ELSE 5)
                /\ pages[i].pagination.hasMore = (i < 3)
        /\ loadMoreRun.loads = 3 => flatData(pages) = 25 /\ ~hasMore
        /\ (loadMoreRun.loads = 3 /\ ev.op = "loadMore") => ev.n = 0 /\ ev.pre.same

CachedSequenceExposed(u) ==
    /\ Len(pages) > 0
    /\ \A i \in 1..Len(pages) : pages[i].data.userId = u
    /\ MapGet(memoryCache, PostsCacheKey(PostsLimit, u)) # NoEntry
    /\ pages = MapGet(memoryCache, PostsCacheKey(PostsLimit, u)).pages

\* owner u was fetched and cached, its first entry has not expired, and
\* the filter has (cleared) or has not been set to all owners since
CachedWithinTtl(u, cleared) ==
    LET key == PostsCacheKey(PostsLimit, u) IN
    /\ key \in DOMAIN firstCached
    /\ firstCached[key].cleared = cleared
    /\ ~Expired(firstCached[key].entry)

\* C10 as stated: once the page sequence of owner 1 is cached, selecting all
\* owners and then owner 1 again within the TTL exposes a cached owner-1
\* sequence and starts no request.
C10_FilterIsolation ==
    (ev.op = "select" /\ selectedUserId = 1 /\ CachedWithinTtl(1, TRUE))
        => CachedSequenceExposed(1) /\ ev.n = 0

\* C10 amended: once the page sequence of an owner is cached, selecting
\* other specific owners (never all owners) and then that owner again,
\* before the first entry cached for it expires, exposes a cached sequence
\* of that owner and starts no request.
C10_OwnerIsolation ==
    \A u \in 1..MaxUserId :
        (ev.op = "select" /\ selectedUserId = u /\ CachedWithinTtl(u, FALSE))
            => CachedSequenceExposed(u) /\ ev.n = 0

C10_Witness ==
    /\ ev.op = "select"
    /\ selectedUserId = 1
    /\ CachedWithinTtl(1, FALSE)
    /\ CachedSequenceExposed(1)
    /\ ev.n = 0
    /\ started >= 3

\* the cache holds no entry for the unconstrained key, in either tier
AllUsersEntryAbsent ==
    /\ AllUsersKey(PostsLimit) \notin DOMAIN memoryCache
    /\ StorageKey(AllUsersKey(PostsLimit)) \notin DOMAIN localStorage

\* C11: cross-filter invalidation: selecting a specific owner deletes the
\* entry of all owners, the entry stays absent while a specific owner is
\* selected, and selecting all owners again starts a fresh page-1 fetch
\* instead of exposing cached pages.
C11_CrossFilterInvalidation ==
    /\ (mounted /\ selectedUserId # Undefined) => AllUsersEntryAbsent
    /\ (ev.op = "select" /\ selectedUserId = Undefined)
        => /\ ev.n = 1
           /\ pages = <<>>
           /\ \E r \in inflight : r.id = started /\ r.page = 1 /\ r.user = Undefined

\* the cache holds no entry for owner u, in either tier
OwnerEntryAbsent(u) ==
    /\ UserCacheKey(PostsLimit, u) \notin DOMAIN memoryCache
    /\ StorageKey(UserCacheKey(PostsLimit, u)) \notin DOMAIN localStorage

\* the step is a selection that leaves a specific owner
SwitchAway == ev'.op = "select" /\ selectedUserId # Undefined

\* C12 as stated: switching the owner filter away from a specific owner, to
\* all owners or to another specific owner, deletes the cache entries of
\* every other known owner (1..10).
C12_SwitchAwayInvalidation ==
    [][SwitchAway =>
        \A u \in (1..JsonPlaceholderUsers) \ {selectedUserId'} : OwnerEntryAbsent(u)']_vars

\* C12 amended: switching from a specific owner to all owners deletes the
\* cache entries of every known owner (1..10); switching to another specific
\* owner deletes the entry of all owners and leaves the entries of the other
\* owners as they were.
C12_OwnerSwitchInvalidation ==
    [][SwitchAway =>
        IF selectedUserId' = Undefined
        THEN \A u \in 1..JsonPlaceholderUsers : OwnerEntryAbsent(u)'
        ELSE /\ AllUsersEntryAbsent'
             /\ \A u \in (1..JsonPlaceholderUsers) \ {selectedUserId'} :
                    LET key == UserCacheKey(PostsLimit, u) IN
                    /\ MapGet(memoryCache', key) = MapGet(memoryCache, key)
                    /\ getItem(localStorage', StorageKey(key))
                            = getItem(localStorage, StorageKey(key))]_vars

\* owner 1 was fetched and cached, and the selection of all owners after it
\* has removed the entry
C12_Witness ==
    /\ ev.op = "select"
    /\ ev.from = 1
    /\ selectedUserId = Undefined
    /\ UserCacheKey(PostsLimit, 1) \in DOMAIN firstCached
    /\ \A u \in 1..JsonPlaceholderUsers : OwnerEntryAbsent(u)

\* owner 1 was fetched and cached, and the selection of owner 2 after it
\* has kept the entry
C12_KeptWitness ==
    /\ ev.op = "select"
    /\ ev.from = 1
    /\ selectedUserId = 2
    /\ ~OwnerEntryAbsent(1)
    /\ AllUsersEntryAbsent

(***************************************************************************)
(* Claims about cache keys (scenario "keys")                               *)
(***************************************************************************)
\* C13: cache keys are collision-free and deterministic: two feeds get the
\* same cache key exactly when they have the same page size and the same
\* owner filter (all owners, or any numeric id including 0), and the key a
\* feed builds is the key the invalidation policy deletes for it.
C13_KeysCollisionFree ==
    /\ \A i, j \in 1..Len(keyCalls) :
            (keyCalls[i].cacheKey = keyCalls[j].cacheKey)
                <=> (/\ keyCalls[i].limit = keyCalls[j].limit
                     /\ keyCalls[i].userId = keyCalls[j].userId)
    /\ \A i \in 1..Len(keyCalls) :
            keyCalls[i].userId \in PolicyOwners
                => keyCalls[i].cacheKey = keyCalls[i].policyKey

(***************************************************************************)
(* Claims about useApi                                                     *)
(***************************************************************************)
\* the step settles a request of the mounted useApi instance that was
\* started in the background (showLoading = false) and was not cancelled
BackgroundSettles(op) ==
    /\ hook = "useApi"
    /\ ev'.op = op
    /\ \E r \in inflight : r.id = ev'.id /\ ~r.showLoading /\ ~r.orphan

\* C14: silent background-refresh failure: when a stale-revalidation fetch
\* of useApi fails, the payload stays as it was and the error exposed to
\* the caller stays as it was.
C14_SilentBackgroundFailure ==
    [][BackgroundSettles("fail") => data' = data /\ error' = error]_vars

\* at time t the entry is unexpired and older than the stale threshold
StaleUnexpired(entry, t) ==
    /\ entry # NoEntry
    /\ t <= entry.expiresAt
    /\ t - entry.timestamp > StaleThreshold

\* C15: stale-while-revalidate in useApi: a controller initialised from an
\* unexpired entry older than the stale threshold exposes the cached payload
\* at once and starts exactly one background fetch; loading stays false
\* while that fetch is in flight; when it succeeds the payload and the cache
\* entry are replaced by its result.
C15_StaleWhileRevalidate ==
    [][/\ (hook = "useApi" /\ ev'.op = "mount" /\ StaleUnexpired(ev'.got, now'))
            => /\ data' = ev'.got.data
               /\ ev'.n = 1
               /\ \E r \in inflight' : r.id = started' /\ ~r.showLoading
       /\ (hook = "useApi" /\ \E r \in inflight' :
                                ~r.showLoading /\ ~r.aborted /\ ~r.orphan)
            => ~loading'
       /\ BackgroundSettles("ok")
            => /\ data' = ev'.id
               /\ CacheEntryNow' # NoEntry
               /\ CacheEntryNow'.data = ev'.id]_vars

\* at time t the entry exists and has not expired
Unexpired(entry, t) == entry # NoEntry /\ t <= entry.expiresAt

\* C17: single-resource load: a useApi controller mounted while the cache
\* holds an unexpired entry for its key carries a cached payload with
\* loading false from its first state on; one mounted with no cached payload
\* sets loading and starts exactly one request.
C17_SingleResourceLoad ==
    (hook = "useApi" /\ ev.op = "mount") =>
        /\ (Unexpired(ev.ret, now) \/ Unexpired(ev.got, now))
            => /\ ev.got # NoEntry
               /\ data = getCachedData(ev.got)
               /\ data # NoData
               /\ ~loading
        /\ getCachedData(ev.got) = NoData
            => /\ loading
               /\ ev.n = 1

\* a warm mount: the entry cached by an earlier instance seeds the new one
C17_Witness ==
    /\ hook = "useApi"
    /\ ev.op = "mount"
    /\ Unexpired(ev.got, now)
    /\ data = ev.got.data
    /\ ~loading
    /\ ev.n = 0

\* a cold mount
C17_ColdWitness ==
    /\ hook = "useApi"
    /\ ev.op = "mount"
    /\ ev.got = NoEntry
    /\ loading
    /\ ev.n = 1

(***************************************************************************)
(* Claims about seeding and refetching of useInfiniteApi                   *)
(***************************************************************************)
\* the step mounts a posts feed: the page is loaded or an owner is selected
FeedMounted == ev.op \in {"load", "select", "mount"} /\ hook # "useApi"

\* C16: staleness of paginated entries: a feed initialised from a cached
\* page sequence that is older than the stale threshold but not expired
\* exposes the cached pages at once and starts a background revalidation
\* request.
C16_PaginatedRevalidation ==
    (FeedMounted /\ StaleUnexpired(ev.got, now) /\ isInfiniteEntry(ev.got)
            /\ Len(ev.got.pages) > 0)
        => pages = ev.got.pages /\ ev.n = 1

\* pages ps, flag hm and page number cur are those of the cached entry
SeededFrom(entry, ps, hm, cur) ==
    /\ entry # NoEntry
    /\ isInfiniteEntry(entry)
    /\ Len(entry.pages) > 0
    /\ ps = entry.pages
    /\ hm = entry.pages[Len(entry.pages)].pagination.hasMore
    /\ cur = entry.pages[Len(entry.pages)].pagination.page

\* C18: paginated seeding: a feed mounted while the cache holds an unexpired
\* paginated entry for its key starts with the cached pages, the hasMore
\* flag and the page number of the last cached page; a loadMore() that
\* follows, hasMore being true, requests exactly that page number + 1.
C18_PaginatedSeeding ==
    [][/\ (FeedMounted' /\ (Unexpired(ev'.ret, now') \/ Unexpired(ev'.got, now')))
            => SeededFrom(ev'.got, pages', hasMore', currentPageRef')
       /\ (FeedMounted /\ Unexpired(ev.got, now) /\ hasMore /\ ev'.op = "loadMore")
            => /\ ev'.n = 1
               /\ \E r \in inflight' :
                    /\ r.id = started'
                    /\ r.page = ev.got.pages[Len(ev.got.pages)].pagination.page + 1]_vars

\* a feed seeded from a two-page entry: its page number starts at 2
C18_Witness ==
    /\ FeedMounted
    /\ Unexpired(ev.got, now)
    /\ Len(ev.got.pages) = 2
    /\ SeededFrom(ev.got, pages, hasMore, currentPageRef)
    /\ currentPageRef = 2
    /\ hasMore
    /\ ev.n = 0

\* the loadMore() after it has requested page 3
C18_NextPageWitness ==
    /\ ev.op = "loadMore"
    /\ ev.n = 1
    /\ Len(pages) = 2
    /\ \A i \in 1..Len(pages) : pages[i].data.src < started - 1
    /\ \E r \in inflight : r.id = started /\ r.page = 3

\* the result of request r is the only page shown and the only page of the
\* cache entry for the key (in the state after the step)
OnlyPage(r, ps, entry) ==
    LET result == fetchPaginatedPosts(1, PostsLimit, r.user, r.id) IN
    /\ ps = <<result>>
    /\ entry # NoEntry
    /\ isInfiniteEntry(entry)
    /\ entry.pages = <<result>>

\* C19: paginated refetch(): whatever the state and whatever is in flight,
\* refetch() leaves no pages, current page 1, hasMore true, no error, retry
\* counter zero and a page-1 request in flight; when the page-1 request
\* succeeds, the pages and the cache entry are exactly its result.
C19_RefetchReplaces ==
    [][/\ ev'.op = "refetch"
            => /\ pages' = <<>>
               /\ currentPageRef' = 1
               /\ hasMore'
               /\ error' = NoError
               /\ retryCountRef' = 0
               /\ \E r \in inflight' :
                    r.id = started' /\ r.page = 1 /\ ~r.aborted /\ ~r.orphan
       /\ \A r \in inflight :
            (ev'.op = "ok" /\ ev'.id = r.id /\ r.page = 1)
                => OnlyPage(r, pages', CacheEntryNow')]_vars

(***************************************************************************)
(* Claims about cancelled requests (both controllers)                      *)
(***************************************************************************)
\* C20: a request cancelled because a newer request of its controller
\* superseded it never sets the error and never increments the retry
\* counter, whether its fetcher resolves or rejects.
C20_SupersededNeverSurfaces ==
    [][(ev'.op \in {"ok", "fail", "late"} /\ ev'.superseded)
            => /\ error' = error
               /\ retryCountRef' = retryCountRef]_vars

\* a superseded request rejects while the request that replaced it is still
\* in flight, and no error is shown
C20_Witness ==
    /\ ev.op = "late"
    /\ ev.superseded
    /\ ev.rejected
    /\ mounted
    /\ error = NoError
    /\ retryCountRef = 0
    /\ \E r \in inflight : r.id > ev.id /\ ~r.orphan /\ ~r.aborted

(***************************************************************************)
(* Claims about teardown, cache writes and loading flags                   *)
(***************************************************************************)
\* C21: teardown cancellation: a request in flight when the component that
\* owns the controller is unmounted is cancelled, and when it settles
\* neither the controller state nor the cache changes.
C21_TeardownCancels ==
    [][/\ \A r \in inflight' : r.orphan => r.aborted
       /\ \A r \in inflight :
            (r.orphan /\ ev'.op \in {"ok", "fail", "late"} /\ ev'.id = r.id)
                => /\ memoryCache' = memoryCache
                   /\ localStorage' = localStorage
                   /\ <<data', pages', loading', loadingMore', error', hasMore'>>
                        = <<data, pages, loading, loadingMore, error, hasMore>>]_vars

(***************************************************************************)
(* Claims about UniversalCacheManager.clear (scenario "clear")             *)
(***************************************************************************)
\* C22: clear() removes every cache entry written by either hook, from the
\* durable tier and from the in-process tier, entries written with
\* persistentCache false included, and leaves every localStorage key without
\* the cache prefix as it was.
C22_ClearRemovesAll ==
    [][ev'.op = "clear" =>
        /\ DOMAIN memoryCache' = {}
        /\ DOMAIN apiMemoryCache' = {}
        /\ \A k \in DOMAIN localStorage' : ~startsWithPrefix(k)
        /\ \A k \in DOMAIN localStorage :
                ~startsWithPrefix(k)
                    => k \in DOMAIN localStorage' /\ localStorage'[k] = localStorage[k]]_vars

(***************************************************************************)
(* Claims about cache writes and flags of the controllers                  *)
(***************************************************************************)
\* the last step settled a request of the mounted controller
MountedSettles == ev.op \in {"ok", "fail", "late"} /\ ~ev.orphan

\* C23: a successful fetch that was not superseded performs exactly one
\* cache write, for the key of the controller; a failed or a superseded
\* fetch performs none.
C23_OneWritePerFetch ==
    MountedSettles =>
        ev.sets = (IF ev.op = "ok" /\ ~ev.superseded THEN <<HookKey>> ELSE <<>>)

C23_Witness ==
    /\ MountedSettles
    /\ ev.op = "ok"
    /\ ev.sets = <<HookKey>>
    /\ hook = "useInfiniteApi"
    /\ Len(pages) = 2

\* a superseded request resolved and wrote nothing
C23_LateWitness ==
    /\ MountedSettles
    /\ ev.op = "late"
    /\ ev.superseded
    /\ ~ev.rejected
    /\ ev.sets = <<>>

(***************************************************************************)
(* Claims about the paginated controller's pages, retries and flags        *)
(***************************************************************************)
\* page numbers 1, 2, ..., Len(ps) in this order
Consecutive(ps) == \A i \in 1..Len(ps) : ps[i].pagination.page = i

\* C25: in every reachable state the paginated controller's page sequence,
\* and the page sequence of every paginated cache entry it has written, has
\* the page numbers 1, 2, 3, ... without gap or repetition, for every
\* interleaving of the initial fetch, loadMore(), refetch(),
\* invalidateCache() and request completions, also when loadMore() is
\* called while no page is loaded.
C25_PagesConsecutive ==
    /\ mounted => Consecutive(pages)
    /\ \A k \in DOMAIN memoryCache :
            isInfiniteEntry(memoryCache[k]) => Consecutive(memoryCache[k].pages)
    /\ \A k \in DOMAIN localStorage :
            isInfiniteEntry(JSONParse(localStorage[k]))
                => Consecutive(JSONParse(localStorage[k]).pages)

\* C26: once the paginated controller's retry counter has reached 3,
\* loadMore() (called directly or by the automatic load-more trigger) starts
\* no network request; only refetch() and invalidateCache() start one.
C26_LoadMoreRespectsCeiling ==
    (ev.op = "loadMore" /\ ev.pre.retry >= maxRetries) => ev.n = 0

\* a request of the mounted instance is in flight that no later request has
\* superseded and no cleanup has cancelled
LiveRequest == \E r \in inflight : ~r.orphan /\ ~r.superseded /\ ~r.aborted

\* C27: the loading flags of the paginated controller never stay stuck: in
\* every reachable state in which no non-superseded request of the instance
\* is in flight, isLoading and isLoadingMore are both false.
C27_FlagsNeverStuck ==
    (hook \in {"useInfiniteApi", "MainPage"} /\ mounted /\ ~LiveRequest)
        => ~loading /\ ~loadingMore

\* C29: every non-superseded failed fetch of the paginated controller
\* (network failure, non-success HTTP status, malformed body or timeout: the
\* fetcher rejects) sets error to the failure message and increments the
\* retry counter by exactly one; every non-superseded successful fetch sets
\* error to null and the retry counter to zero.
C29_FailureAccounting ==
    [][(hook \in {"useInfiniteApi", "MainPage"} /\ ~ev'.orphan) =>
        /\ ev'.op = "fail"
                => error' = FetchError /\ retryCountRef' = retryCountRef + 1
        /\ ev'.op = "ok"
                => error' = NoError /\ retryCountRef' = 0]_vars

\* a load-more request fails after an earlier failure
C29_Witness ==
    /\ hook = "useInfiniteApi"
    /\ ev.op = "fail"
    /\ ev.rejected
    /\ retryCountRef = 2
    /\ error = FetchError

\* a fetch succeeds while the counter is at zero again
C29_ResetWitness ==
    /\ hook = "useInfiniteApi"
    /\ ev.op = "ok"
    /\ retryCountRef = 0
    /\ error = NoError
    /\ Len(pages) > 0

\* the state after a successful loadMore(): the pages before it followed by
\* the result of request r, in the controller (ps) and in the cache entry
LoadedMore(r, prev, ps, hm, cur, entry) ==
    LET result == fetchPaginatedPosts(r.page, PostsLimit, r.user, r.id) IN
    /\ ps = Append(prev, result)
    /\ hm = result.pagination.hasMore
    /\ cur = result.pagination.page
    /\ entry # NoEntry
    /\ isInfiniteEntry(entry)
    /\ entry.pages = ps

\* C30: after every successful non-superseded loadMore() the cache entry
\* for the controller's key holds exactly the controller's new page sequence
\* (the previous pages followed by the new page), hasMore is the new page's
\* hasMore and the current page number is the new page's page number.
C30_LoadMoreInstalls ==
    [][\A r \in inflight :
        (ev'.op = "ok" /\ ev'.id = r.id /\ r.kind = "fetchPage" /\ ~r.isRefetch)
            => LoadedMore(r, pages, pages', hasMore', currentPageRef', CacheEntryNow')]_vars

(***************************************************************************)
(* Claims about the single-resource controller's flag                      *)
(***************************************************************************)
\* C28: the single-resource controller's isLoading never stays stuck:
\* whenever no non-superseded request of the instance is in flight,
\* isLoading is false, also when a foreground fetch (refetch or initial
\* load) was superseded by a background revalidation (stale check on focus
\* or on an effect re-run) that then completed.
C28_LoadingNeverStuck ==
    (hook \in ApiHooks /\ mounted /\ ~LiveRequest) => ~loading

(***************************************************************************)
(* Further claims about the paginated controller                           *)
(***************************************************************************)
\* C31: a failed loadMore() leaves the pages already loaded, hasMore, the
\* current page number and the cache entry of the key unchanged; only
\* error, the retry counter and isLoadingMore change.
C31_FailedLoadMoreFrame ==
    [][\A r \in inflight :
        (ev'.op = "fail" /\ ev'.id = r.id /\ r.kind = "fetchPage" /\ ~r.isRefetch)
            => /\ pages' = pages
               /\ hasMore' = hasMore
               /\ currentPageRef' = currentPageRef
               /\ CacheEntryNow' = CacheEntryNow
               /\ loading' = loading
               /\ error' = FetchError
               /\ retryCountRef' = retryCountRef + 1
               /\ ~loadingMore']_vars

\* the request of a loadMore() has failed with pages loaded
C31_Witness ==
    /\ hook \in {"useInfiniteApi", "MainPage"}
    /\ ev.op = "fail"
    /\ Len(pages) > 0
    /\ hasMore
    /\ error = FetchError
    /\ ~loadingMore
    /\ CacheEntryNow # NoEntry
    /\ CacheEntryNow.pages = pages

\* C32: each call of refetch() on a paginated controller starts exactly
\* one network request, for page 1, whether the controller holds zero
\* pages or one or more pages.
C32_RefetchStartsOne ==
    (hook \in {"useInfiniteApi", "MainPage"} /\ ev.op = "refetch") =>
        /\ ev.n = 1
        /\ \E r \in inflight : r.id = started /\ r.page = 1 /\ ~r.orphan

(***************************************************************************)
(* Claims about a controller that does not use the durable tier            *)
(***************************************************************************)
\* C33: with persistentCache false a controller never exposes a payload
\* taken from a cache entry whose expiresAt has passed: an expired
\* in-process entry is treated as absent and leads to a fresh fetch with
\* the loading state.
C33_MemoryOnlyExpiry ==
    (hook = "useApiMemory" /\ ev.op = "mount" /\ Expired(ev.got)) =>
        /\ data = NoData
        /\ loading
        /\ ev.n = 1

(***************************************************************************)
(* Claims about the age of cached pages (scenario "MainPage")              *)
(***************************************************************************)
\* the last page of an entry is the result of the request whose completion
\* wrote the entry: it was fetched at the entry's timestamp
NewestPage(entry) == entry.pages[Len(entry.pages)]

\* C34: no page is served from a paginated cache entry later than ttl after
\* the page was fetched: every page held in an entry was fetched at or after
\* the entry's creation time, for every sequence of loadMore() writes.
C34_PagesNoOlderThanEntry ==
    \A k \in DOMAIN memoryCache, k2 \in DOMAIN firstCached :
        LET e == memoryCache[k]
            f == firstCached[k2].entry
        IN  (isInfiniteEntry(e) /\ isInfiniteEntry(f) /\ Len(f.pages) > 0) =>
                \A i \in 1..Len(e.pages) :
                    e.pages[i].data.src = NewestPage(f).data.src
                        => e.timestamp <= f.timestamp

(***************************************************************************)
(* Claims about a controller whose cacheKey changes                        *)
(***************************************************************************)
\* every page of the sequence is the result of a fetch for owner filter u
PagesOf(ps, u) == \A i \in 1..Len(ps) : ps[i].data.userId = u

\* C35: the pages a controller instance exposes originate from the cache
\* entry of, or a fetch issued for, its current cacheKey: after the
\* instance's cacheKey changes, data obtained under the previous key is
\* never exposed under, appended to or written to the entry of the new key.
C35_KeyChangeIsolation ==
    (hook = "useInfiniteApiKey" /\ mounted) =>
        /\ PagesOf(pages, selectedUserId)
        /\ \A u \in KeyOwnerFilters :
                LET entry == MapGet(memoryCache, PostsCacheKey(PostsLimit, u)) IN
                (entry # NoEntry /\ isInfiniteEntry(entry)) => PagesOf(entry.pages, u)

(***************************************************************************)
(* Claims about pagination metadata (scenario "pagination")                *)
(***************************************************************************)
\* the least number of pages of the given size that hold total items
CeilDiv(total, size) ==
    CHOOSE n \in 0..total : n * size >= total /\ (n = 0 \/ (n - 1) * size < total)

\* C36: every page produced by fetchPaginatedPosts has totalPages =
\* ceil(total / pageSize), hasMore = (pageNumber < totalPages), and nextPage
\* defined exactly when hasMore is true, then equal to pageNumber + 1, with
\* the total-count header present and with the default total.
C36_PaginationMetadata ==
    \A i \in 1..Len(keyCalls) :
        LET c == keyCalls[i]
            p == c.pagination
        IN  hook = "pagination" =>
            /\ p.total = (IF c.header # Undefined THEN c.header
                          ELSE IF c.userId # Undefined THEN 10 ELSE 100)
            /\ p.totalPages = CeilDiv(p.total, p.limit)
            /\ p.hasMore = (p.page < p.totalPages)
            /\ (p.nextPage # Undefined) = p.hasMore
            /\ p.hasMore => p.nextPage = p.page + 1

\* a page that is not the last one, of a response without the header
C36_Witness ==
    /\ hook = "pagination"
    /\ Len(keyCalls) = 1
    /\ keyCalls[1].header = Undefined
    /\ keyCalls[1].pagination.total = 100
    /\ keyCalls[1].pagination.totalPages = 34
    /\ keyCalls[1].pagination.hasMore
    /\ keyCalls[1].pagination.nextPage = keyCalls[1].pagination.page + 1

\* the last page of a response with the header: no next page
C36_LastPageWitness ==
    /\ hook = "pagination"
    /\ Len(keyCalls) = 1
    /\ keyCalls[1].header = 25
    /\ keyCalls[1].pagination.page = keyCalls[1].pagination.totalPages
    /\ ~keyCalls[1].pagination.hasMore
    /\ keyCalls[1].pagination.nextPage = Undefined

(***************************************************************************)
(* Claims about the cancellation handle (both controllers)                 *)
(***************************************************************************)
\* C37: when a superseded request completes, cleanupRequest leaves the
\* instance's current cancellation handle untouched; the handle reference
\* is cleared only by the completion of the request that owns it or by the
\* effect cleanup that aborts it.
C37_HandleOwnership ==
    [][/\ (ev'.op = "late" /\ ~ev'.orphan) => abortControllerRef' = abortControllerRef
       /\ (mounted /\ mounted' /\ abortControllerRef # 0 /\ abortControllerRef' = 0)
            => \/ ev'.op \in {"ok", "fail"} /\ ev'.id = abortControllerRef
               \/ ev'.op = "depsChange"]_vars

\* a superseded request has completed while the request that superseded it
\* is in flight and still owns the handle
C37_Witness ==
    /\ ev.op = "late"
    /\ ~ev.orphan
    /\ ev.superseded
    /\ abortControllerRef # 0
    /\ \E r \in inflight : r.id = abortControllerRef /\ ~r.aborted /\ ~r.orphan

====
